---- MODULE Spec2Model ----
(***************************************************************************)
(* scripts/update_repo_json.py: the manifest updater.  One invocation of   *)
(* main() opens and parses the manifest file, checks and mutates the       *)
(* parsed document in memory, and overwrites the file.  The model keeps    *)
(* the file on disk, and per process slot the position of main(), its      *)
(* parsed arguments, its in-memory document and its exit status.           *)
(*                                                                         *)
(* Strings are sequences of one-character strings, so that str.split and   *)
(* the f-strings of the script are computed and not assumed.  A JSON value *)
(* is a record [t |-> type tag, v |-> payload], as json.load builds it:    *)
(* "list" (a sequence of values), "dict" (a function from keys to values), *)
(* "str", "num", "bool", "null".                                           *)
(***************************************************************************)
EXTENDS Integers, Sequences, FiniteSets, TLC

VARIABLES
    file,        \* what is stored at args.file: absent, not JSON, or a JSON text
    pc,          \* pc[p]: where process p is in main()
    args,        \* args[p]: the parsed command line of p (line 14)
    data,        \* data[p]: the document p holds in memory (line 20 on)
    exitCode,    \* exitCode[p]: exit status of p once it has ended
    outcome,     \* outcome[p]: how p ended: "ok", the diagnostic or the exception
    seen,        \* history: the file as p found it at line 19
    before,      \* history: the processes whose write was complete when p opened the file
    lastWriter   \* history: the process that wrote the file last (0: none yet)

vars == <<file, pc, args, data, exitCode, outcome, seen, before, lastWriter>>

Procs == {1, 2}

-----------------------------------------------------------------------------
(* Bounds of the model *)

\* utcnow() returns an instant 0..MaxClock seconds after 1970-01-01T00:00:00.
MaxClock == 1

Clock == 0..MaxClock

-----------------------------------------------------------------------------
(* JSON values as json.load builds them *)

Str(s) == [t |-> "str", v |-> s]

Num(n) == [t |-> "num", v |-> n]

Bool(b) == [t |-> "bool", v |-> b]

Null == [t |-> "null", v |-> 0]

List(s) == [t |-> "list", v |-> s]

Dict(f) == [t |-> "dict", v |-> f]

EmptyDict == Dict(<<>>)

\* Mutant of Truthy: `if len(data) == 0` in place of `if not data`, which lets
\* 0, false and null pass the check.
TruthyByLen(x) ==
    CASE x.t = "list" -> Len(x.v) > 0
      [] x.t = "dict" -> DOMAIN x.v # {}
      [] x.t = "str"  -> Len(x.v) > 0
      [] OTHER        -> TRUE

\* Python's truth value of a parsed JSON value (`not data`, line 25).
Truthy(x) ==
    CASE x.t = "list" -> Len(x.v) > 0
      [] x.t = "dict" -> DOMAIN x.v # {}
      [] x.t = "str"  -> Len(x.v) > 0
      [] x.t = "num"  -> x.v # 0
      [] x.t = "bool" -> x.v
      [] OTHER        -> FALSE

\* Python's == between two parsed values of which one is a str.
PyEq(a, b) == a.t = b.t /\ a.v = b.v

\* d[k] = val on a dict payload: an existing key is overwritten, a new one added.
SetItem(d, k, val) == [y \in DOMAIN d \cup {k} |-> IF y = k THEN val ELSE d[y]]

\* Mutant of Get: d.get(k), the default forgotten.
GetOrNone(d, k, default) == IF k \in DOMAIN d THEN d[k] ELSE Null

\* d.get(k, default) on a dict payload.
Get(d, k, default) == IF k \in DOMAIN d THEN d[k] ELSE default

-----------------------------------------------------------------------------
(* The file *)

Absent == [kind |-> "absent", doc |-> Null]

Malformed == [kind |-> "malformed", doc |-> Null]

\* json.dump(data, f, indent=2) followed by the newline: a JSON text of `doc`.
json_dump(doc) == [kind |-> "json", doc |-> doc]

\* open(args.file, 'r') and json.load(f).
json_load(f) ==
    CASE f.kind = "absent"    -> [err |-> "FileNotFoundError", val |-> Null]
      [] f.kind = "malformed" -> [err |-> "JSONDecodeError", val |-> Null]
      [] OTHER                -> [err |-> "none", val |-> f.doc]

-----------------------------------------------------------------------------
(* Command line (lines 7-14) and the values derived from it *)

Slash == "/"

\* "--target-abi" default (line 12).
DefaultTargetAbi == <<"1", "0", ".", "1", "1", ".", "0", ".", "0">>

\* Values given for --repo: no slash, one slash, two slashes, a leading slash.
Repos ==
    { <<"u">>, <<"v", "/", "r">>, <<"v", "/", "r", "/", "x">>, <<"/", "w">> }

\* Values given for --version.
Versions == { <<"1", ".", "0", ".", "0">>, <<"1", ".", "0", ".", "1">> }

\* Values given for --zip-url.
ZipUrls == { <<"h", "t", "t", "p", ":", "/", "/", "x", "/", "z", ".", "z", "i", "p">> }

\* Values given for --checksum.
Checksums == { <<"a", "b", "c", "1", "2", "3">>, <<"d", "e", "f", "4", "5", "6">> }

\* --target-abi is left out, so argparse supplies the default.
TargetAbis == { DefaultTargetAbi }

ArgSets ==
    [repo : Repos, version : Versions, zip_url : ZipUrls,
     checksum : Checksums, target_abi : TargetAbis]

NoArgs ==
    [repo |-> <<>>, version |-> <<>>, zip_url |-> <<>>,
     checksum |-> <<>>, target_abi |-> <<>>]

\* s.split('/')[0] (line 16): the characters of s before its first '/'.
RECURSIVE SplitFirst(_)
SplitFirst(s) ==
    IF s = <<>> \/ Head(s) = Slash THEN <<>>
    ELSE <<Head(s)>> \o SplitFirst(Tail(s))

\* Mutant of repo_owner: args.repo.rsplit('/', 1)[0], the text before the last '/'.
RECURSIVE BeforeLastSlash(_)
BeforeLastSlash(s) ==
    IF \A i \in 1..Len(s) : s[i] # Slash THEN s
    ELSE IF s[Len(s)] = Slash THEN SubSeq(s, 1, Len(s) - 1)
    ELSE BeforeLastSlash(SubSeq(s, 1, Len(s) - 1))

RepoBeforeLastSlash(a) == BeforeLastSlash(a.repo)

repo_owner(a) == SplitFirst(a.repo)

ImageUrlPrefix ==
    <<"h", "t", "t", "p", "s", ":", "/", "/", "r", "a", "w", ".", "g", "i", "t",
      "h", "u", "b", "u", "s", "e", "r", "c", "o", "n", "t", "e", "n", "t", ".",
      "c", "o", "m", "/">>

ImageUrlSuffix ==
    <<"/", "m", "a", "i", "n", "/", "j", "f", "r", "e", "s", "o", "l", "v", "e",
      ".", "p", "n", "g">>

\* f"https://raw.githubusercontent.com/{args.repo}/main/jfresolve.png" (line 35).
image_url(a) == ImageUrlPrefix \o a.repo \o ImageUrlSuffix

ChangelogPrefix ==
    <<"A", "u", "t", "o", "m", "a", "t", "e", "d", " ", "r", "e", "l", "e", "a",
      "s", "e", " ">>

\* f"Automated release {args.version}" (line 39).
changelog(a) == ChangelogPrefix \o a.version

Digits == <<"0", "1", "2", "3", "4", "5", "6", "7", "8", "9">>

\* strftime("%Y-%m-%dT%H:%M:%SZ") of the instant `now` seconds into 1970-01-01.
strftime(now) ==
    <<"1", "9", "7", "0", "-", "0", "1", "-", "0", "1", "T", "0", "0", ":", "0", "0", ":">>
        \o <<Digits[(now \div 10) + 1], Digits[(now % 10) + 1], "Z">>

\* The record built at lines 37-44.
new_version(a, now) ==
    Dict([version   |-> Str(a.version),
          changelog |-> Str(changelog(a)),
          sourceUrl |-> Str(a.zip_url),
          checksum  |-> Str(a.checksum),
          targetAbi |-> Str(a.target_abi),
          timestamp |-> Str(strftime(now))])

-----------------------------------------------------------------------------
(* Lines 25-53: the checks and the mutation of the document in memory *)

Raise(e) == [err |-> e, doc |-> Null]

\* The elements `for v in versions` iterates over (line 50), when versions is
\* iterable: a list yields its elements; a dict yields its keys and a str its
\* characters, each a str (here only their number matters: a str has no .get).
IterItems(versions) ==
    CASE versions.t = "list" -> versions.v
      [] versions.t = "dict" -> [i \in 1..Cardinality(DOMAIN versions.v) |-> Str(<<>>)]
      [] OTHER               -> [i \in 1..Len(versions.v) |-> Str(<<>>)]

\* Mutant of KeepOthers: the filter left out.
KeepAll(items, version) == items

\* Mutant of KeepOthers: `if v.get("version") and v["version"] != args.version`,
\* which also drops the records that have no version.
KeepVersioned(items, version) ==
    LET Differs(v) == /\ "version" \in DOMAIN v.v
                      /\ ~PyEq(v.v["version"], Str(version))
    IN  SelectSeq(items, Differs)

\* [v for v in versions if v.get("version") != args.version] (line 50).
KeepOthers(items, version) ==
    LET Differs(v) == ~PyEq(Get(v.v, "version", Null), Str(version))
    IN  SelectSeq(items, Differs)

\* Mutant of InsertFirst: versions.append(new_version).
InsertLast(versions, rec) == versions \o <<rec>>

\* versions.insert(0, new_version) (line 52).
InsertFirst(versions, rec) == <<rec>> \o versions

\* plugin["owner"] = ...; plugin["imageUrl"] = ... (lines 33-35).
SetGlobalInfo(plugin, a) ==
    SetItem(SetItem(plugin, "owner", Str(repo_owner(a))),
            "imageUrl", Str(image_url(a)))

\* Mutant of WithFirst: data = [plugin], the other elements dropped.
OnlyFirst(d, plugin) == List(<<plugin>>)

\* data[0] is mutated in place: the other elements of data stay (lines 30, 53).
WithFirst(d, plugin) == List(<<plugin>> \o Tail(d.v))

\* Lines 25-53 on the parsed document d.  The result is the error that ends the
\* run ("none": none) and the document as it then stands in memory.
Update(d, a, now) ==
    IF ~Truthy(d) THEN Raise("EmptyManifest")
    ELSE IF d.t = "dict" THEN Raise("KeyError")             \* data[0], line 30
    ELSE IF d.t \in {"num", "bool"} THEN Raise("TypeError") \* data[0], line 30
    ELSE
      LET plugin == IF d.t = "list" THEN d.v[1] ELSE Str(<<d.v[1]>>)
      IN
      IF plugin.t # "dict" THEN Raise("TypeError")          \* line 33
      ELSE
        LET info     == SetGlobalInfo(plugin.v, a)
            versions == Get(info, "versions", List(<<>>))      \* line 48
        IN
        IF versions.t \in {"num", "bool", "null"} THEN Raise("TypeError")
        ELSE
          LET items == IterItems(versions)
          IN
          IF \E i \in 1..Len(items) : items[i].t # "dict"
          THEN Raise("AttributeError")                       \* v.get, line 50
          ELSE
            LET kept   == KeepOthers(items, a.version)
                listed == InsertFirst(kept, new_version(a, now))
                done   == SetItem(info, "versions", List(listed))   \* line 53
            IN  [err |-> "none", doc |-> WithFirst(d, Dict(done))]

-----------------------------------------------------------------------------
(* The manifests the file may hold before the first run *)

S1(c) == Str(<<c>>)

V100 == <<"1", ".", "0", ".", "0">>

V101 == <<"1", ".", "0", ".", "1">>

V090 == <<"0", ".", "9", ".", "0">>

V080 == <<"0", ".", "8", ".", "0">>

\* A version record written by an earlier release.
OldRecord(version, checksum) ==
    Dict([version   |-> Str(version),
          changelog |-> S1("c"),
          sourceUrl |-> S1("u"),
          checksum  |-> S1(checksum),
          targetAbi |-> S1("a"),
          timestamp |-> S1("t")])

\* A record that has no "version" field.
NoVersionRecord == Dict([changelog |-> S1("c")])

OtherPlugin == Dict([name |-> S1("o"), versions |-> List(<<OldRecord(V100, "m")>>)])

\* A descriptor with further fields, followed by a second descriptor.
DocFull ==
    List(<< Dict([name     |-> S1("j"),
                  owner    |-> Str(<<"o", "l", "d">>),
                  imageUrl |-> S1("x"),
                  versions |-> List(<<OldRecord(V090, "m"), NoVersionRecord,
                                      OldRecord(V080, "m")>>)]),
            OtherPlugin >>)

\* A descriptor whose versions hold 1.0.0 twice, without owner and imageUrl.
DocDuplicates ==
    List(<< Dict([versions |-> List(<<OldRecord(V100, "m"), OldRecord(V090, "m"),
                                      OldRecord(V100, "n")>>)]) >>)

\* A descriptor with no field at all, and one whose versions is {}.
DocBare == List(<<EmptyDict>>)

DocVersionsEmptyDict == List(<<Dict([owner |-> S1("x"), versions |-> EmptyDict])>>)

ValidDocs == {DocFull, DocDuplicates, DocBare, DocVersionsEmptyDict}

\* json.load gives these for [], {}, "", 0, false and null.
FalsyDocs == {List(<<>>), EmptyDict, Str(<<>>), Num(0), Bool(FALSE), Null}

\* Documents that are not an array.
NonArrayDocs == {Dict([name |-> S1("j")]), S1("j"), Num(1), Bool(TRUE)}

\* Arrays whose first element is not a mapping.
NonMappingDocs == {List(<<List(<<>>)>>), List(<<S1("j")>>), List(<<Num(1)>>), List(<<Null>>)}

\* Descriptors whose versions cannot be filtered.
BadVersionsDocs ==
    { List(<<Dict([versions |-> Num(1)])>>),
      List(<<Dict([versions |-> Null])>>),
      List(<<Dict([versions |-> S1("j")])>>),
      List(<<Dict([versions |-> Dict([k |-> Null])])>>),
      List(<<Dict([versions |-> List(<<OldRecord(V090, "m"), S1("j")>>)])>>) }

InitDocs == ValidDocs \cup FalsyDocs \cup NonArrayDocs \cup NonMappingDocs \cup BadVersionsDocs

InitFiles == {Absent, Malformed} \cup {json_dump(d) : d \in InitDocs}

-----------------------------------------------------------------------------
(* main() *)

Unopened == [kind |-> "unopened", doc |-> Null]

Init ==
    /\ file \in InitFiles
    /\ pc = [p \in Procs |-> "idle"]
    /\ args = [p \in Procs |-> NoArgs]
    /\ data = [p \in Procs |-> Null]
    /\ exitCode = [p \in Procs |-> -1]
    /\ outcome = [p \in Procs |-> "running"]
    /\ seen = [p \in Procs |-> Unopened]
    /\ before = [p \in Procs |-> {}]
    /\ lastWriter = 0

\* Mutant of Die: the file was opened with 'w' before the checks, so a failing
\* run leaves it empty.
DieTruncating(p, how) ==
    /\ pc' = [pc EXCEPT ![p] = "done"]
    /\ exitCode' = [exitCode EXCEPT ![p] = 1]
    /\ outcome' = [outcome EXCEPT ![p] = how]
    /\ data' = [data EXCEPT ![p] = Null]
    /\ file' = Malformed
    /\ UNCHANGED lastWriter

\* The process ends without writing: sys.exit(1) after a diagnostic, or an
\* exception nobody catches (the interpreter then exits with status 1).
Die(p, how) ==
    /\ pc' = [pc EXCEPT ![p] = "done"]
    /\ exitCode' = [exitCode EXCEPT ![p] = 1]
    /\ outcome' = [outcome EXCEPT ![p] = how]
    /\ data' = [data EXCEPT ![p] = Null]
    /\ UNCHANGED <<file, lastWriter>>

\* Lines 7-16: the command line is parsed.
ParseArgs(p, a) ==
    /\ pc[p] = "idle"
    /\ pc' = [pc EXCEPT ![p] = "open"]
    /\ args' = [args EXCEPT ![p] = a]
    /\ UNCHANGED <<file, data, exitCode, outcome, seen, before, lastWriter>>

\* One invocation at a time: the one-shot usage.
Invoke(p) ==
    /\ \A q \in Procs : pc[q] = "idle"
    /\ \E a \in ArgSets : ParseArgs(p, a)

\* An invocation started whatever the other process is doing, once per process.
InvokeConcurrently(p) ==
    /\ exitCode[p] = -1
    /\ \E a \in ArgSets : ParseArgs(p, a)

\* Mutant of Load: a missing file is created as an empty manifest and read.
LoadOrCreate(p) ==
    /\ pc[p] = "open"
    /\ seen' = [seen EXCEPT ![p] = file]
    /\ before' = [before EXCEPT ![p] = {q \in Procs : outcome[q] = "ok"}]
    /\ LET made == IF file.kind = "absent" THEN json_dump(List(<<>>)) ELSE file
           r    == json_load(made)
       IN  IF r.err = "JSONDecodeError"
           THEN Die(p, "JSONDecodeError")
           ELSE /\ data' = [data EXCEPT ![p] = r.val]
                /\ pc' = [pc EXCEPT ![p] = "check"]
                /\ file' = made
                /\ UNCHANGED <<exitCode, outcome, lastWriter>>
    /\ UNCHANGED args

\* Lines 18-23: open, json.load, and the FileNotFoundError handler.
Load(p) ==
    /\ pc[p] = "open"
    /\ seen' = [seen EXCEPT ![p] = file]
    /\ before' = [before EXCEPT ![p] = {q \in Procs : outcome[q] = "ok"}]
    /\ LET r == json_load(file)
       IN  CASE r.err = "FileNotFoundError" -> Die(p, "NotFound")
             [] r.err = "JSONDecodeError"   -> Die(p, "JSONDecodeError")
             [] OTHER ->
                  /\ data' = [data EXCEPT ![p] = r.val]
                  /\ pc' = [pc EXCEPT ![p] = "check"]
                  /\ UNCHANGED <<file, exitCode, outcome, lastWriter>>
    /\ UNCHANGED args

\* Lines 25-53: the emptiness check and the mutation of the document in memory.
Process(p) ==
    /\ pc[p] = "check"
    /\ \E now \in Clock :
         LET r == Update(data[p], args[p], now)
         IN  IF r.err # "none"
             THEN Die(p, r.err)
             ELSE /\ data' = [data EXCEPT ![p] = r.doc]
                  /\ pc' = [pc EXCEPT ![p] = "write"]
                  /\ UNCHANGED <<file, exitCode, outcome, lastWriter>>
    /\ UNCHANGED <<args, seen, before>>

\* Mutant of Write: the file is read again and updated at the time of the
\* write, as under a lock.
WriteReread(p) ==
    /\ pc[p] = "write"
    /\ file' = json_dump(Update(file.doc, args[p], 0).doc)
    /\ lastWriter' = p
    /\ pc' = [pc EXCEPT ![p] = "done"]
    /\ exitCode' = [exitCode EXCEPT ![p] = 0]
    /\ outcome' = [outcome EXCEPT ![p] = "ok"]
    /\ UNCHANGED <<args, data, seen, before>>

\* Lines 55-59: the file is overwritten with the document and main() returns.
Write(p) ==
    /\ pc[p] = "write"
    /\ file' = json_dump(data[p])
    /\ lastWriter' = p
    /\ pc' = [pc EXCEPT ![p] = "done"]
    /\ exitCode' = [exitCode EXCEPT ![p] = 0]
    /\ outcome' = [outcome EXCEPT ![p] = "ok"]
    /\ UNCHANGED <<args, data, seen, before>>

\* The process is gone and its exit status collected; the slot is free again.
Reap(p) ==
    /\ pc[p] = "done"
    /\ pc' = [pc EXCEPT ![p] = "idle"]
    /\ args' = [args EXCEPT ![p] = NoArgs]
    /\ data' = [data EXCEPT ![p] = Null]
    /\ exitCode' = [exitCode EXCEPT ![p] = -1]
    /\ outcome' = [outcome EXCEPT ![p] = "running"]
    /\ seen' = [seen EXCEPT ![p] = Unopened]
    /\ before' = [before EXCEPT ![p] = {}]
    /\ lastWriter' = 0
    /\ UNCHANGED file

\* Invocations one after the other.
Next ==
    \E p \in Procs : Invoke(p) \/ Load(p) \/ Process(p) \/ Write(p) \/ Reap(p)

Spec == Init /\ [][Next]_vars

\* Two invocations that may overlap.
NextRace ==
    \E p \in Procs : InvokeConcurrently(p) \/ Load(p) \/ Process(p) \/ Write(p)

SpecRace == Init /\ [][NextRace]_vars

-----------------------------------------------------------------------------
(* Reading a manifest, for the properties below *)

\* f holds an array whose first element is a mapping.
HasDescriptor(f) ==
    /\ f.kind = "json"
    /\ f.doc.t = "list"
    /\ Len(f.doc.v) > 0
    /\ f.doc.v[1].t = "dict"

Descriptor(f) == f.doc.v[1].v

\* The records of the descriptor's versions; none when there is no such list.
VersionRecords(f) ==
    IF /\ HasDescriptor(f)
       /\ "versions" \in DOMAIN Descriptor(f)
       /\ Descriptor(f).versions.t = "list"
    THEN Descriptor(f).versions.v
    ELSE <<>>

\* Record r is a mapping whose "version" is the string v.
IsVersion(r, v) ==
    /\ r.t = "dict"
    /\ "version" \in DOMAIN r.v
    /\ r.v.version.t = "str"
    /\ r.v.version.v = v

\* No two records of f's versions have the same version value.
DistinctVersions(f) ==
    LET rs == VersionRecords(f)
    IN  \A i, j \in 1..Len(rs) :
          (/\ i < j
           /\ rs[i].t = "dict" /\ rs[j].t = "dict"
           /\ "version" \in DOMAIN rs[i].v /\ "version" \in DOMAIN rs[j].v
           /\ rs[i].v.version.t = rs[j].v.version.t)
          => rs[i].v.version.v # rs[j].v.version.v

Succeeded(p) == pc[p] = "done" /\ exitCode[p] = 0

Failed(p) == pc[p] = "done" /\ exitCode[p] # 0

-----------------------------------------------------------------------------
(* Properties *)

\* C1: once the versions of the stored descriptor hold no two records with the
\* same version value, no step of any invocation, whatever its arguments,
\* stores a versions sequence that holds two such records.
C1_VersionsStayDistinct ==
    [][DistinctVersions(file) => DistinctVersions(file')]_vars

\* An update has replaced a record of a duplicate-free manifest of two or more
\* records by one of the same version.
C1_Witness ==
    \E p \in Procs :
      /\ Succeeded(p)
      /\ DistinctVersions(seen[p])
      /\ Len(VersionRecords(seen[p])) >= 2
      /\ \E i \in 1..Len(VersionRecords(seen[p])) :
           IsVersion(VersionRecords(seen[p])[i], args[p].version)
      /\ DistinctVersions(file)

\* C2: after a successful update with version v the stored versions hold
\* exactly one record of version v, at index 0, and its sourceUrl, checksum,
\* targetAbi and changelog are those of the invocation's arguments, however
\* many records of version v the file held before.
C2_OneRecordFirst ==
    \A p \in Procs :
      Succeeded(p) =>
        LET rs == VersionRecords(file)
            a  == args[p]
        IN  /\ Len(rs) >= 1
            /\ IsVersion(rs[1], a.version)
            /\ \A i \in 2..Len(rs) : ~IsVersion(rs[i], a.version)
            /\ rs[1].v.sourceUrl = Str(a.zip_url)
            /\ rs[1].v.checksum = Str(a.checksum)
            /\ rs[1].v.targetAbi = Str(a.target_abi)
            /\ rs[1].v.changelog = Str(ChangelogPrefix \o a.version)

\* The update ran a second time with the same version and another checksum:
\* the record it found first was an automated release of that version.
C2_Witness ==
    \E p \in Procs :
      /\ Succeeded(p)
      /\ Len(VersionRecords(seen[p])) >= 1
      /\ IsVersion(VersionRecords(seen[p])[1], args[p].version)
      /\ VersionRecords(seen[p])[1].v.changelog = Str(ChangelogPrefix \o args[p].version)
      /\ VersionRecords(seen[p])[1].v.checksum # Str(args[p].checksum)
      /\ VersionRecords(file)[1].v.checksum = Str(args[p].checksum)

\* C3: a successful update with version v stores the new record followed by
\* the records read whose version is not v (those without a version field
\* included), unmodified and in their order: the length is 1 + the number of
\* records kept.
C3_OthersKeptInOrder ==
    \A p \in Procs :
      Succeeded(p) =>
        LET old     == VersionRecords(seen[p])
            new     == VersionRecords(file)
            keptIdx == {i \in 1..Len(old) : ~IsVersion(old[i], args[p].version)}
            rank(i) == Cardinality({j \in keptIdx : j <= i})
        IN  /\ Len(new) = 1 + Cardinality(keptIdx)
            /\ Len(new) = 1 + (Len(old) - Cardinality((1..Len(old)) \ keptIdx))
            /\ IsVersion(new[1], args[p].version)
            /\ \A i \in keptIdx : new[1 + rank(i)] = old[i]

\* A second update, with another version, of a manifest that held neither:
\* the second version is first, the first second, the three earlier records
\* (one without a version field) follow.
C3_Witness ==
    \E p \in Procs :
      /\ Succeeded(p)
      /\ args[p].version = V101
      /\ LET new == VersionRecords(file)
         IN  /\ Len(new) = 5
             /\ IsVersion(new[1], V101)
             /\ IsVersion(new[2], V100)
             /\ IsVersion(new[3], V090)
             /\ new[4] = NoVersionRecord
             /\ IsVersion(new[5], V080)
      /\ \A i \in 1..Len(VersionRecords(seen[p])) :
           ~IsVersion(VersionRecords(seen[p])[i], V101)

\* C4: an invocation that ends with a non-zero exit status leaves the file as
\* it found it, whichever failure ended it; while an invocation has not
\* written, the file is as it found it, and it stands at the write step only
\* with a document that passed every check and carries the whole update.
C4_FailureLeavesFile ==
    \A p \in Procs :
      /\ Failed(p) =>
           /\ file = seen[p]
           /\ outcome[p] \in {"NotFound", "EmptyManifest", "JSONDecodeError",
                              "KeyError", "TypeError", "AttributeError"}
      /\ pc[p] \in {"check", "write"} => file = seen[p]
      /\ pc[p] = "write" =>
           /\ seen[p].kind = "json"
           /\ seen[p].doc \notin FalsyDocs
           /\ data[p].t = "list" /\ Len(data[p].v) = Len(seen[p].doc.v)
           /\ data[p].v[1].t = "dict"
           /\ {"owner", "imageUrl", "versions"} \subseteq DOMAIN data[p].v[1].v
           /\ data[p].v[1].v.versions.t = "list"
           /\ IsVersion(data[p].v[1].v.versions.v[1], args[p].version)

\* An invocation ended by the error of line 50, after owner and imageUrl were
\* set in memory; the file is a JSON manifest and is as it was.
C4_Witness ==
    \E p \in Procs :
      /\ Failed(p)
      /\ outcome[p] = "AttributeError"
      /\ HasDescriptor(seen[p])
      /\ file = seen[p]

\* C5: when the file does not exist the invocation ends at once with exit
\* code 1 and the NotFound diagnostic, writes nothing, and the file still does
\* not exist.
C5_MissingFile ==
    \A p \in Procs :
      seen[p].kind = "absent" =>
        /\ pc[p] = "done"
        /\ exitCode[p] = 1
        /\ outcome[p] = "NotFound"
        /\ file.kind = "absent"

C5_Witness ==
    \E p \in Procs : pc[p] = "done" /\ seen[p].kind = "absent" /\ args[p] \in ArgSets

\* C6: when the file parses to [], {}, "", 0, false or null the invocation
\* ends with exit code 1 and the empty-manifest diagnostic and writes nothing;
\* a non-empty array never ends with that diagnostic.
C6_EmptyManifest ==
    \A p \in Procs :
      (pc[p] = "done" /\ seen[p].kind = "json") =>
        /\ seen[p].doc \in {List(<<>>), Dict(<<>>), Str(<<>>), Num(0), Bool(FALSE), Null} =>
             /\ exitCode[p] = 1
             /\ outcome[p] = "EmptyManifest"
             /\ file = seen[p]
        /\ (seen[p].doc.t = "list" /\ Len(seen[p].doc.v) > 0) =>
             outcome[p] # "EmptyManifest"

\* The file held the number 0.
C6_Witness ==
    \E p \in Procs :
      pc[p] = "done" /\ seen[p] = json_dump(Num(0)) /\ outcome[p] = "EmptyManifest"

\* The first element of the manifest p read.
FirstRead(p) == seen[p].doc.v[1]

ReadArray(p) ==
    seen[p].kind = "json" /\ seen[p].doc.t = "list" /\ Len(seen[p].doc.v) > 0

\* C7 as stated: a first element that is no mapping, or that lacks owner,
\* imageUrl or versions, makes the invocation end with a non-zero exit status.
C7_AsStated ==
    \A p \in Procs :
      (/\ pc[p] = "done"
       /\ ReadArray(p)
       /\ \/ FirstRead(p).t # "dict"
          \/ ~({"owner", "imageUrl", "versions"} \subseteq DOMAIN FirstRead(p).v))
      => exitCode[p] # 0

\* C7 amended: a first element that is no mapping makes the invocation end
\* with the TypeError of line 33, a non-zero exit status and the file as it
\* was; a first element that is a mapping is not rejected for lacking owner,
\* imageUrl or versions: when its versions is absent or a list of mappings the
\* update succeeds and the stored descriptor has the three fields.
C7_NonMappingFails ==
    \A p \in Procs :
      (pc[p] = "done" /\ ReadArray(p)) =>
        /\ FirstRead(p).t # "dict" =>
             /\ exitCode[p] = 1
             /\ outcome[p] = "TypeError"
             /\ file = seen[p]
        /\ (/\ FirstRead(p).t = "dict"
            /\ \/ "versions" \notin DOMAIN FirstRead(p).v
               \/ /\ FirstRead(p).v.versions.t = "list"
                  /\ \A i \in 1..Len(FirstRead(p).v.versions.v) :
                       FirstRead(p).v.versions.v[i].t = "dict")
           => /\ exitCode[p] = 0
              /\ HasDescriptor(file)
              /\ {"owner", "imageUrl", "versions"} \subseteq DOMAIN Descriptor(file)

\* The manifest [{}], with none of the three fields, was updated.
C7_Witness ==
    \E p \in Procs :
      /\ Succeeded(p)
      /\ seen[p] = json_dump(List(<<Dict(<<>>)>>))
      /\ Len(VersionRecords(file)) = 1

\* o is s up to its first '/', or all of s when s has none.
IsBeforeFirstSlash(o, s) ==
    /\ Len(o) <= Len(s)
    /\ \A i \in 1..Len(o) : o[i] = s[i] /\ o[i] # "/"
    /\ Len(o) = Len(s) \/ s[Len(o) + 1] = "/"

\* s occurs in u.
Contains(u, s) ==
    \E i \in 1..(Len(u) - Len(s) + 1) : SubSeq(u, i, i + Len(s) - 1) = s

\* C8: after a successful update the stored owner is the repo argument up to
\* its first '/' (all of it when it has none) and the stored imageUrl contains
\* the repo argument, whatever the two fields held before.
C8_OwnerAndImageUrl ==
    \A p \in Procs :
      Succeeded(p) =>
        /\ Descriptor(file).owner.t = "str"
        /\ IsBeforeFirstSlash(Descriptor(file).owner.v, args[p].repo)
        /\ Descriptor(file).imageUrl.t = "str"
        /\ Contains(Descriptor(file).imageUrl.v, args[p].repo)

\* An update with a repo of two slashes, after an update with another repo
\* had set another owner.
C8_Witness ==
    \E p \in Procs :
      /\ Succeeded(p)
      /\ args[p].repo = <<"v", "/", "r", "/", "x">>
      /\ Descriptor(file).owner = Str(<<"v">>)
      /\ "owner" \in DOMAIN Descriptor(seen[p])
      /\ Descriptor(seen[p]).owner = Str(<<"u">>)

\* C9: a successful update leaves the number and order of the elements, every
\* element after the first, and every field of the first other than owner,
\* imageUrl and versions, as they were read.
C9_RestUnchanged ==
    \A p \in Procs :
      Succeeded(p) =>
        LET old == seen[p].doc.v
            new == file.doc.v
            set == {"owner", "imageUrl", "versions"}
        IN  /\ file.kind = "json" /\ file.doc.t = "list"
            /\ Len(new) = Len(old)
            /\ \A i \in 2..Len(old) : new[i] = old[i]
            /\ new[1].t = "dict"
            /\ DOMAIN new[1].v = DOMAIN old[1].v \cup set
            /\ \A k \in DOMAIN old[1].v \ set : new[1].v[k] = old[1].v[k]

\* A manifest of two descriptors, the first with a name field, was updated.
C9_Witness ==
    \E p \in Procs :
      /\ Succeeded(p)
      /\ Len(seen[p].doc.v) = 2
      /\ "name" \in DOMAIN seen[p].doc.v[1].v
      /\ file # seen[p]

\* Some record of f's versions has version v.
HoldsVersion(f, v) ==
    \E i \in 1..Len(VersionRecords(f)) : IsVersion(VersionRecords(f)[i], v)

=============================================================================
